---- MODULE Spec2Model ----
(***************************************************************************)
(* Model of the LiveKit egress recording templates:                        *)
(*   "part000" - src/unnamed/part_000 (timer-based START_RECORDING)        *)
(*   "app1"    - first App of src/src/App.jsx (polling readiness detector) *)
(*   "app2"    - second App of src/src/App.jsx (timer-based, debug build)  *)
(*                                                                         *)
(* The tile tracker (the React state `tiles`, a Map identity -> tile       *)
(* object) is modelled with an explicit heap: the handlers copy the Map    *)
(* but mutate the tile objects in place.  A JS object is a TLA+ function   *)
(* from property names to values; a property that was never assigned is    *)
(* absent from its DOMAIN (JS undefined).                                  *)
(***************************************************************************)
EXTENDS Integers, Sequences, FiniteSets, TLC

VARIABLES
    variant,      \* which of the three programs is running
    conn,         \* the room: "noRoom" (url or token missing, no Room made) |
                  \* "connecting" | "connected" | "failed" | "disconnected"
    wired,        \* event names registered with room.on
    tiles,        \* the current Map: identity -> reference of its tile object
    heap,         \* reference -> tile object
    held,         \* a Map a consumer (the renderer) read earlier and still holds
    nextEl,       \* number of elements created by track.attach() so far
    live,         \* elements and audio contexts created and not given up since
    page,         \* identity -> the video element in its tile of the committed page
    joined,       \* identities enumerated or announced as joined, and not left
    stray,        \* identities that got a track event while not joined
    subs,         \* room state: live subscribed tracks per remote and kind
    startedRef,   \* startedRef.current
    startTimer,   \* the delayed START_RECORDING timeout is pending
    startCount,   \* number of START_RECORDING markers written
    lastOp,       \* the handler that ran last, and its argument
    now,          \* Date.now() - startTime of the poller, in ms
    tickDue,      \* time the pending setTimeout(tick, 100) is due, or NoTimer
    pubs,         \* room state read by tick: the remote track publications
    hasDecoded,   \* the local `hasDecoded` of the latest tick invocation
    statsPending, \* publications whose getRTCStatsReport() promise is pending
    mounted,      \* the effect has run and its cleanup has not
    torn,         \* cleanup has run for the room of the current effect
    snapshotOn,   \* the TEMPLATE_SNAPSHOT interval is active
    unloadListeners, \* beforeunload listeners registered on window
    endCount      \* number of END_RECORDING markers written

trackerVars == <<variant, conn, wired, tiles, heap, held, nextEl, live, page, joined,
                 stray, subs, startTimer, lastOp>>
tickVars == <<now, tickDue, hasDecoded, statsPending>>
pollerVars == <<tickVars, pubs>>
lifeVars == <<mounted, torn, unloadListeners, endCount>>
vars == <<trackerVars, pollerVars, startedRef, startCount, lifeVars, snapshotOn>>

----------------------------------------------------------------------------
(* Bounds and input domains *)

MaxEls == 2          \* video elements created in one run
MaxTracks == 1       \* simultaneously subscribed tracks of one kind per remote
MaxMounts == 2       \* runs of the effect (mount, and re-run after a cleanup)
MaxEnd == 2          \* END_RECORDING markers after which beforeunload is not delivered

Variants == {"part000", "app1", "app2"}
LocalId == "recorder"
RemoteSeq == <<"alice", "bob">>
Remotes == {RemoteSeq[i] : i \in 1..Len(RemoteSeq)}
Identities == {LocalId} \cup Remotes
Undefined == "<undefined>"
Metadata == {"", "Meta"}      \* participant.metadata
Names == {"", "Nick"}         \* participant.name
LocalMetadata == {""}         \* room.localParticipant.metadata of the recorder
KindSeq == <<"video", "audio">>
Kinds == {"video", "audio"}
AudioEnvs == {"ok", "noAudioContext", "noMediaStreamTrack", "analyserThrows"}
Refs == 1..(2 * Cardinality(Identities))
NullEl == 0
NullAnalyser == 0
Analyser == 1

Range(f) == {f[x] : x \in DOMAIN f}
Restrict(f, S) == [x \in S |-> f[x]]
EmptyMap == [x \in {} |-> 0]

----------------------------------------------------------------------------
(* JavaScript operators used by the handlers *)

\* a || b on strings: the empty string and undefined are falsy
Or(a, b) == IF a \in {Undefined, ""} THEN b ELSE a

\* a ?? b: only undefined/null fall through
Coalesce(a, b) == IF a = Undefined THEN b ELSE a

\* p.f = x on a JS object
SetProp(p, f, x) == (f :> x) @@ p

\* truthiness of p.f for boolean properties
IsTrue(p, f) == f \in DOMAIN p /\ p[f] = TRUE

\* truthiness of p.f for object properties (element, analyser)
IsObj(p, f) == f \in DOMAIN p /\ p[f] # 0

----------------------------------------------------------------------------
(* The tracker state threaded through a handler:                           *)
(*   m    - the Map in React state, h - the heap of tile objects,          *)
(*   held - a snapshot a consumer still holds, el - elements created,      *)
(*   res  - the elements and audio contexts the page has created and has   *)
(*          not given up (el.remove(), track.detach(el), ctx.close()),     *)
(*   doc  - the video element each tile of the committed page contains     *)

TState == [m |-> tiles, h |-> heap, held |-> held, el |-> nextEl, res |-> live,
           doc |-> page]

\* a resource made for a participant: the n-th element of track.attach() for
\* a video track; the audio element and the AudioContext of one identity are
\* not told apart (n = 0)
Res(kind, owner, n) == [res |-> kind, owner |-> owner, n |-> n]

Has(T, id) == id \in DOMAIN T.m
\* a fresh object: any reference not in use (the allocator's choice is fixed
\* here: the identity's own slot when free, else the lowest free one)
Slot(id) == CHOOSE i \in 1..Cardinality(Identities) :
                id = (<<LocalId>> \o RemoteSeq)[i]
NewRef(T, id) == IF Slot(id) \notin DOMAIN T.h THEN Slot(id)
                 ELSE CHOOSE r \in Refs : r \notin DOMAIN T.h

\* React replaces the state by the Map the updater returns; objects no Map
\* refers to any more are garbage.
setTiles(T, m, h) ==
    LET reachable == Range(m) \cup Range(T.held)
    IN [T EXCEPT !.m = m, !.h = Restrict(h, reachable)]

\* `new Map(prev)` followed by `next.delete(identity)`
MapDelete(m, identity) == Restrict(m, DOMAIN m \ {identity})

NewTile(v, identity, displayName) ==
    LET base == [identity |-> identity,
                 displayName |-> IF v = "app1" THEN Or(displayName, identity)
                                 ELSE Coalesce(displayName, identity),
                 hasVideo |-> FALSE, hasAudio |-> FALSE, speaking |-> FALSE,
                 videoEl |-> NullEl]
    IN IF v = "app2" THEN base ELSE SetProp(base, "analyser", NullAnalyser)

safeAddTileFresh(T, v, identity, displayName) ==
    LET r == NewRef(T, identity)
    IN setTiles(T, (identity :> r) @@ T.m,
                (r :> NewTile(v, identity, displayName)) @@ T.h)

safeAddTile(T, v, identity, displayName) ==
    IF Has(T, identity) THEN T
    ELSE LET r == NewRef(T, identity)
         IN setTiles(T, (identity :> r) @@ T.m,
                     (r :> NewTile(v, identity, displayName)) @@ T.h)

safeRemoveTileKeep(T, v, identity) == setTiles(T, T.m, T.h)

safeRemoveTileClear(T, v, identity) == setTiles(T, EmptyMap, T.h)

\* the JSX condition `p.hasVideo && p.videoEl` under which a tile renders the
\* wrapper whose ref callback appends p.videoEl
RendersVideo(p) == IsTrue(p, "hasVideo") /\ IsObj(p, "videoEl")

\* the page React commits for a Map over the page doc: a tile that renders
\* the wrapper gets its videoEl (the ref callback empties the node and appends
\* it); a tile that renders the placeholder keeps what its <div> contains
\* (React keeps the node, same type and position, and the ref is called with
\* null); the <div> of an identity without a tile is unmounted
Rendered(m, h, doc) ==
    [id \in Identities |->
        IF id \notin DOMAIN m THEN NullEl
        ELSE IF RendersVideo(h[m[id]]) THEN h[m[id]].videoEl
        ELSE doc[id]]

NoPage == [id \in Identities |-> NullEl]

\* el.remove(): the element leaves the wrapper that contains it
Unparent(doc, els) == [id \in DOMAIN doc |-> IF doc[id] \in els THEN NullEl ELSE doc[id]]

\* what safeRemoveTile gives up with videoEl.remove(): nothing in part_000;
\* in app1 the tile's videoEl when it has a parentElement (a commit appended
\* it to its wrapper); in app2 the tile's videoEl
Removed(T, v, identity) ==
    IF /\ v # "part000"
       /\ Has(T, identity)
       /\ IsObj(T.h[T.m[identity]], "videoEl")
       /\ (v = "app1" => T.doc[identity] = T.h[T.m[identity]].videoEl)
    THEN {Res("videoEl", identity, T.h[T.m[identity]].videoEl)}
    ELSE {}

safeRemoveTile(T, v, identity) ==
    LET gone == Removed(T, v, identity)
    IN setTiles([T EXCEPT !.res = @ \ gone,
                          !.doc = Unparent(@, {r.n : r \in gone})],
                MapDelete(T.m, identity), T.h)

\* `next.get(id) || { identity: id, displayName: id }`, then in-place
\* assignments to the object and `next.set(id, p)`
UpdateOrCreate(T, id, props) ==
    LET r == IF Has(T, id) THEN T.m[id] ELSE NewRef(T, id)
        p == IF Has(T, id) THEN T.h[r] ELSE [identity |-> id, displayName |-> id]
    IN setTiles(T, (id :> r) @@ T.m, (r :> (props @@ p)) @@ T.h)

\* `const p = next.get(identity); if (p) { ...; next.set(identity, p) }`
UpdateIfPresent(T, id, props) ==
    IF Has(T, id)
    THEN LET r == T.m[id]
         IN setTiles(T, T.m, [T.h EXCEPT ![r] = props @@ T.h[r]])
    ELSE setTiles(T, T.m, T.h)

attachVideo(T, v, id) ==
    LET el == T.el + 1
        T1 == [T EXCEPT !.el = el, !.res = @ \cup {Res("videoEl", id, el)}]
    IN UpdateOrCreate(T1, id, [videoEl |-> el, hasVideo |-> TRUE])

\* track.attach() makes the audio element in every case; the AudioContext is
\* made unless the page has none
AudioResources(id, env) ==
    {Res("audioEl", id, 0)}
    \cup (IF env = "noAudioContext" THEN {} ELSE {Res("audioCtx", id, 0)})

\* part_000: the analyser is built outside any try; app1: inside try/catch and
\* only when AudioContext and mediaStreamTrack exist; failure skips setTiles.
attachAudio(T, v, id, env) ==
    LET T1 == [T EXCEPT !.res = @ \cup AudioResources(id, env)]
    IN IF env = "ok"
       THEN UpdateOrCreate(T1, id, [hasAudio |-> TRUE, analyser |-> Analyser])
       ELSE T1

\* part_000's attachAudio throws to its caller when the analyser cannot be built
attachAudioThrows(v, env) == v = "part000" /\ env # "ok"

noteAudioPub(T, id) == UpdateOrCreate(T, id, [hasAudio |-> TRUE])

onTrackSubscribed(T, v, id, kind, env) ==
    IF kind = "video" THEN attachVideo(T, v, id)
    ELSE IF kind = "audio"
         THEN IF v = "app2" THEN noteAudioPub(T, id) ELSE attachAudio(T, v, id, env)
         ELSE T

onTrackUnsubscribedKeepEl(T, v, id, kind) ==
    IF kind = "video" THEN UpdateIfPresent(T, id, [hasVideo |-> FALSE])
    ELSE IF kind = "audio"
         THEN IF v = "app2"
              THEN UpdateIfPresent(T, id, [hasAudio |-> FALSE, speaking |-> FALSE])
              ELSE UpdateIfPresent(T, id, [hasAudio |-> FALSE, analyser |-> NullAnalyser])
         ELSE T

\* app2: `document.getElementById("video-" + identity)` finds the element a
\* commit put into the page; track.detach(el) and el.remove() give it up
Detached(T, v, id) ==
    IF v = "app2" /\ T.doc[id] # NullEl
    THEN {Res("videoEl", id, T.doc[id])}
    ELSE {}

\* part_000 and app2 only: app1 registers no trackUnsubscribed handler
onTrackUnsubscribed(T, v, id, kind) ==
    IF kind = "video"
    THEN UpdateIfPresent([T EXCEPT !.res = @ \ Detached(T, v, id),
                                   !.doc = Unparent(@, {r.n : r \in Detached(T, v, id)})],
                         id, [hasVideo |-> FALSE, videoEl |-> NullEl])
    ELSE IF kind = "audio"
         THEN IF v = "app2"
              THEN UpdateIfPresent(T, id, [hasAudio |-> FALSE, speaking |-> FALSE])
              ELSE UpdateIfPresent(T, id, [hasAudio |-> FALSE, analyser |-> NullAnalyser])
         ELSE T

\* app2: `participant.metadata || participant.name || identity`
onParticipantConnected(T, v, id, metadata, name) ==
    safeAddTile(T, v, id, IF v = "app2" THEN Or(metadata, Or(name, id))
                          ELSE Or(metadata, id))

onParticipantDisconnected(T, v, id) == safeRemoveTile(T, v, id)

\* speaking detection: average byte magnitude of the frequency sample
SpeakThreshold == 20

RECURSIVE Sum(_)
Sum(buf) == IF buf = <<>> THEN 0 ELSE Head(buf) + Sum(Tail(buf))

\* a threshold test that counts an average of exactly 20 as speaking; not the
\* code, used to test the speaking-interval property
IsSpeakingAtLeast(buf) == Len(buf) > 0 /\ Sum(buf) >= SpeakThreshold * Len(buf)

\* `avg = buf.reduce((a, b) => a + b, 0) / buf.length; avg > 20`
IsSpeaking(buf) == Len(buf) > 0 /\ Sum(buf) > SpeakThreshold * Len(buf)

\* sample buffers read by analyser.getByteFrequencyData, per identity
Bufs == {<<20, 20>>, <<20, 21>>, <<0, 255>>}

\* the setInterval callback of part_000 (300 ms) and app1 (250 ms)
speakingInterval(T, v, bufOf) ==
    LET upd(p) == IF IsObj(p, "analyser")
                  THEN SetProp(p, "speaking", IsSpeaking(bufOf[p.identity]))
                  ELSE p
        h == [r \in DOMAIN T.h |-> IF r \in Range(T.m) THEN upd(T.h[r]) ELSE T.h[r]]
    IN setTiles(T, T.m, h)

----------------------------------------------------------------------------
(* doConnect / startLogic: the continuation after `await room.connect`     *)

PairSeq ==
    LET n == Len(KindSeq)
    IN [i \in 1..(Len(RemoteSeq) * n) |->
            <<RemoteSeq[((i - 1) \div n) + 1], KindSeq[((i - 1) % n) + 1]>>]

\* the displayName argument doConnect passes to safeAddTile
ConnectName(v, id, metadata) ==
    IF v = "part000" THEN metadata ELSE Or(metadata, id)

RECURSIVE addExisting(_, _, _, _, _)
addExisting(T, v, seq, existing, metaOf) ==
    IF seq = <<>> THEN T
    ELSE LET id == Head(seq)
             T1 == IF id \in existing
                   THEN safeAddTile(T, v, id, ConnectName(v, id, metaOf[id]))
                   ELSE T
         IN addExisting(T1, v, Tail(seq), existing, metaOf)

\* `if (pub.isSubscribed && pub.track) { attachVideo / attachAudio|noteAudioPub }`
RECURSIVE attachExisting(_, _, _, _, _)
attachExisting(T, v, seq, presubs, env) ==
    IF seq = <<>> THEN T
    ELSE LET pr == Head(seq)
             T1 == IF pr \in presubs
                   THEN onTrackSubscribed(T, v, pr[1], pr[2], env)
                   ELSE T
         IN attachExisting(T1, v, Tail(seq), presubs, env)

\* app2 adds a participant's tile and attaches its tracks in one pass
RECURSIVE addAndAttach(_, _, _, _, _, _, _)
addAndAttach(T, v, seq, existing, metaOf, presubs, env) ==
    IF seq = <<>> THEN T
    ELSE LET id == Head(seq)
             T1 == IF id \in existing
                   THEN safeAddTile(T, v, id, ConnectName(v, id, metaOf[id]))
                   ELSE T
             mine == SelectSeq(PairSeq, LAMBDA pr : pr[1] = id)
             T2 == IF id \in existing THEN attachExisting(T1, v, mine, presubs, env)
                   ELSE T1
         IN addAndAttach(T2, v, Tail(seq), existing, metaOf, presubs, env)

enumerate(T, v, existing, metaOf, presubs, env) ==
    LET T0 == safeAddTile(T, v, LocalId, ConnectName(v, LocalId, metaOf[LocalId]))
    IN IF v = "part000"
       THEN addExisting(T0, v, RemoteSeq, existing, metaOf)
       ELSE IF v = "app1"
       THEN attachExisting(addExisting(T0, v, RemoteSeq, existing, metaOf),
                           v, PairSeq, presubs, env)
       ELSE addAndAttach(T0, v, RemoteSeq, existing, metaOf, presubs, env)

Handlers(v) ==
    {"participantConnected", "participantDisconnected", "trackSubscribed"}
    \cup (IF v = "app1" THEN {} ELSE {"trackUnsubscribed"})

\* part_000 and app2 arm the START_RECORDING timeout as soon as the handlers
\* are wired; app1 starts the readiness poller instead.
ArmsStartTimer(v, started) == v # "app1" /\ ~started

----------------------------------------------------------------------------
(* The readiness poller of app1: `tick` in startLogic                      *)

FRAME_DECODE_TIMEOUT == 5000
GracePeriod == 500
TickDelay == 100
MaxTime == 5200      \* the clock saturates here: `now = MaxTime` is "that late or later"
Deltas == {50, 100}  \* amounts of time that pass between two events

\* The room as tick reads it: one camera and one microphone publication of a
\* remote participant, each absent or present.  A publication is subscribed
\* only while it has a track; a track can outlive the subscription (permission
\* revoked); only a video track decodes frames.
PubIds == {"cam", "mic"}
KindOf(p) == IF p = "cam" THEN "video" ELSE "audio"
NoPub == [present |-> FALSE, isSubscribed |-> FALSE, track |-> FALSE, decoded |-> FALSE]
PubStates(p) ==
    {NoPub} \cup
    {s \in [present : {TRUE}, isSubscribed : BOOLEAN, track : BOOLEAN, decoded : BOOLEAN] :
        /\ s.isSubscribed => s.track
        /\ s.decoded => (s.track /\ KindOf(p) = "video")
        /\ KindOf(p) = "audio" => (s.track <=> s.isSubscribed)}

\* a publication that is subscribed and has its track, nothing decoded yet
PubOn == [present |-> TRUE, isSubscribed |-> TRUE, track |-> TRUE, decoded |-> FALSE]

\* the publications tick finds in a room whose subscribed tracks are s (counts
\* per remote and kind)
PubsOfSubs(s) ==
    [p \in PubIds |-> IF \E r \in Remotes : s[<<r, KindOf(p)>>] > 0 THEN PubOn ELSE NoPub]

\* `if (pub.isSubscribed) hasSubscribed = true`
HasSubscribed(ps) == \E p \in PubIds : ps[p].present /\ ps[p].isSubscribed

\* `if (pub.kind === Track.Kind.Video && pub.videoTrack) hasVideo = true`
HasVideo(ps) == \E p \in PubIds : ps[p].present /\ KindOf(p) = "video" /\ ps[p].track

\* the publications whose getRTCStatsReport() is called, each giving a promise
StatsRequested(ps) == {p \in PubIds : ps[p].present /\ KindOf(p) = "video" /\ ps[p].track}

\* `hasDecoded` as line 182 reads it.  It is initialised to false and assigned
\* only inside the `.then` callbacks of the stats promises; tick never awaits,
\* so no callback has run when the decision is taken.
HasDecodedAtDecision(ps) == FALSE

tickShouldStartGraceInclusive(decoded, hasVideo, hasSubscribed, dt) ==
    \/ decoded
    \/ (~hasVideo /\ hasSubscribed /\ dt >= GracePeriod)
    \/ (dt > FRAME_DECODE_TIMEOUT /\ hasSubscribed)

tickShouldStartNoTimeout(decoded, hasVideo, hasSubscribed, dt) ==
    \/ decoded
    \/ (~hasVideo /\ hasSubscribed /\ dt > GracePeriod)

tickShouldStartTimeoutAlone(decoded, hasVideo, hasSubscribed, dt) ==
    \/ decoded
    \/ (~hasVideo /\ hasSubscribed /\ dt > GracePeriod)
    \/ dt > FRAME_DECODE_TIMEOUT

\* lines 182-184
tickShouldStart(decoded, hasVideo, hasSubscribed, dt) ==
    \/ decoded
    \/ (~hasVideo /\ hasSubscribed /\ dt > GracePeriod)
    \/ (dt > FRAME_DECODE_TIMEOUT /\ hasSubscribed)

tickOutcomeNoLatch(shouldStart, started) ==
    [emit |-> shouldStart, started |-> started, reschedule |-> TRUE]

\* lines 186-192: emit and latch, or poll again, or (already started) nothing
tickOutcome(shouldStart, started) ==
    IF shouldStart /\ ~started
    THEN [emit |-> TRUE, started |-> TRUE, reschedule |-> FALSE]
    ELSE [emit |-> FALSE, started |-> started, reschedule |-> ~started]

Min(a, b) == IF a < b THEN a ELSE b

----------------------------------------------------------------------------
(* Tracker actions: room.connect settling, the session events delivered    *)
(* to the wired handlers, the speaking interval and the start timeout      *)

NoTimer == 0 - 1

Commit(T) ==
    /\ tiles' = T.m
    /\ heap' = T.h
    /\ held' = T.held
    /\ nextEl' = T.el
    /\ live' = T.res
    /\ page' = T.doc

\* env: what the audio analysis setup of the handler met ("ok" when it met
\* no obstacle or built no analyser at all)
\* sample: the frequency data the speaking interval read, per identity (the
\* empty function for every other operation)
Op(name, id, kind, threw) ==
    [op |-> name, id |-> id, kind |-> kind, threw |-> threw, env |-> "ok",
     sample |-> EmptyMap]

\* one run of tick (lines 156-193) on the publications ps at dt = t
tick(ps, t) ==
    /\ LET shouldStart == tickShouldStart(HasDecodedAtDecision(ps), HasVideo(ps),
                                          HasSubscribed(ps), t)
           out == tickOutcome(shouldStart, startedRef)
       IN /\ startedRef' = out.started
          /\ startCount' = IF out.emit THEN Min(startCount + 1, 2) ELSE startCount
          /\ tickDue' = IF out.reschedule THEN t + TickDelay ELSE NoTimer
    /\ hasDecoded' = FALSE
    /\ statsPending' = StatsRequested(ps)

SubsOf(presubs) == [pr \in Remotes \X Kinds |-> IF pr \in presubs THEN 1 ELSE 0]

VideoCount(presubs) == Cardinality({pr \in presubs : pr[2] = "video"})

\* `await room.connect(...)` resolves: enumerate, wire the handlers, start
\* the start signal (part_000, app2: the timeout, armed once per startedRef,
\* a timeout armed earlier stays pending; app1: startTime = Date.now() and the
\* direct call tick() of line 194).  existing: the remote participants
\* already in the room, presubs: their tracks that are already subscribed.
ConnectResolve(existing, metaOf, presubs, env) ==
    /\ conn = "connecting"
    /\ VideoCount(presubs) <= MaxEls - nextEl
    /\ conn' = "connected"
    /\ Commit(enumerate(TState, variant, existing, metaOf, presubs, env))
    /\ wired' = Handlers(variant)
    /\ joined' = {LocalId} \cup existing
    /\ subs' = SubsOf(presubs)
    /\ pubs' = PubsOfSubs(SubsOf(presubs))
    /\ IF variant = "app1"
       THEN /\ now' = 0
            /\ tick(PubsOfSubs(SubsOf(presubs)), 0)
            /\ startTimer' = startTimer
       ELSE /\ startTimer' = (startTimer \/ ArmsStartTimer(variant, startedRef))
            /\ startedRef' = (startedRef \/ ArmsStartTimer(variant, startedRef))
            /\ UNCHANGED <<startCount, tickVars>>
    /\ snapshotOn' = TRUE
    /\ lastOp' = Op("doConnect", LocalId, "", FALSE)
    /\ UNCHANGED <<variant, stray, lifeVars>>

\* a doConnect whose wiring and start timer sat after the try/catch; not the
\* code, used to test the failed-connect property
ConnectRejectThenWires ==
    /\ conn = "connecting"
    /\ conn' = "failed"
    /\ wired' = {"participantConnected", "participantDisconnected"}
    /\ startTimer' = TRUE
    /\ lastOp' = Op("connectFailed", LocalId, "", FALSE)
    /\ UNCHANGED <<variant, tiles, heap, held, nextEl, live, page, joined,
                   stray, subs, startedRef, startCount, pollerVars, lifeVars, snapshotOn>>

\* `await room.connect(...)` rejects: nothing after the await runs
ConnectReject ==
    /\ conn = "connecting"
    /\ conn' = "failed"
    /\ lastOp' = Op("connectFailed", LocalId, "", FALSE)
    /\ UNCHANGED <<variant, wired, tiles, heap, held, nextEl, live, page, joined,
                   stray, subs, startTimer, startedRef, startCount, pollerVars, lifeVars, snapshotOn>>

ParticipantConnected(id, metadata, name) ==
    /\ "participantConnected" \in wired
    /\ Commit(onParticipantConnected(TState, variant, id, metadata, name))
    /\ joined' = joined \cup {id}
    /\ lastOp' = Op("participantConnected", id, "", FALSE)
    /\ UNCHANGED <<variant, conn, wired, stray, subs, startTimer, startedRef,
                   startCount, pollerVars, lifeVars, snapshotOn>>

\* the participant is gone from the room, and its tracks with it
ParticipantDisconnected(id) ==
    /\ "participantDisconnected" \in wired
    /\ Commit(onParticipantDisconnected(TState, variant, id))
    /\ joined' = joined \ {id}
    /\ stray' = stray \ {id}
    /\ subs' = [pr \in DOMAIN subs |-> IF pr[1] = id THEN 0 ELSE subs[pr]]
    /\ pubs' = PubsOfSubs(subs')
    /\ lastOp' = Op("participantDisconnected", id, "", FALSE)
    /\ UNCHANGED <<variant, conn, wired, startTimer, startedRef,
                   startCount, tickVars, lifeVars, snapshotOn>>

TrackSubscribed(id, kind, env) ==
    /\ "trackSubscribed" \in wired
    /\ subs[<<id, kind>>] < MaxTracks
    /\ kind = "video" => nextEl < MaxEls
    /\ subs' = [subs EXCEPT ![<<id, kind>>] = @ + 1]
    /\ stray' = IF id \in joined THEN stray ELSE stray \cup {id}
    /\ Commit(onTrackSubscribed(TState, variant, id, kind, env))
    /\ lastOp' = [Op("trackSubscribed", id, kind,
                     kind = "audio" /\ attachAudioThrows(variant, env))
                  EXCEPT !.env = IF kind = "audio" /\ variant # "app2"
                                 THEN env ELSE "ok"]
    /\ pubs' = PubsOfSubs(subs')
    /\ UNCHANGED <<variant, conn, wired, joined, startTimer, startedRef,
                   startCount, tickVars, lifeVars, snapshotOn>>

\* the room delivers trackUnsubscribed while connected and when it disconnects
\* (part_000 never removes its handler).  app1 registers no handler: the room
\* state changes and nothing in the page runs.
TrackUnsubscribed(id, kind) ==
    /\ conn \in {"connected", "disconnected"}
    /\ subs' = [subs EXCEPT ![<<id, kind>>] = IF @ > 0 THEN @ - 1 ELSE 0]
    /\ IF "trackUnsubscribed" \in wired
       THEN Commit(onTrackUnsubscribed(TState, variant, id, kind))
       ELSE UNCHANGED <<tiles, heap, held, nextEl, live, page>>
    /\ lastOp' = Op("trackUnsubscribed", id, kind, FALSE)
    /\ pubs' = PubsOfSubs(subs')
    /\ UNCHANGED <<variant, conn, wired, joined, stray, startTimer, startedRef,
                   startCount, tickVars, lifeVars, snapshotOn>>

\* the interval is armed when the effect runs, before room.connect settles:
\* in part_000 by an effect of its own, in app1 by the effect that makes the
\* room (not reached when url or token is missing); the cleanup clears it
SpeakingTick(bufOf) ==
    /\ variant = "part000" \/ (variant = "app1" /\ conn # "noRoom")
    /\ ~torn
    /\ \A id \in Identities :
          (id \in DOMAIN tiles /\ IsObj(heap[tiles[id]], "analyser"))
          \/ bufOf[id] = <<20, 20>>
    /\ Commit(speakingInterval(TState, variant, bufOf))
    /\ lastOp' = [Op("speakingInterval", LocalId, "", FALSE) EXCEPT !.sample = bufOf]
    /\ UNCHANGED <<variant, conn, wired, joined, stray, subs, startTimer,
                   startedRef, startCount, pollerVars, lifeVars, snapshotOn>>

\* the setTimeout callback of doConnect: console.log("START_RECORDING")
StartTimerFire ==
    /\ startTimer
    /\ startTimer' = FALSE
    /\ startCount' = startCount + 1
    /\ lastOp' = Op("startTimer", LocalId, "", FALSE)
    /\ UNCHANGED <<variant, conn, wired, tiles, heap, held, nextEl, live, page,
                   joined, stray, subs, startedRef, pollerVars, lifeVars, snapshotOn>>

\* room.disconnect(): a room.connect still pending is aborted and rejects
Disconnected(c) ==
    IF c = "connecting" THEN "failed"
    ELSE IF c = "connected" THEN "disconnected" ELSE c

\* the teardown of the effect.  app2: cleanup() = room.off of the four
\* handlers, room.disconnect(), clearInterval(snapshot); app1: clearInterval
\* of the snapshot and speaking intervals, room.disconnect(); part_000:
\* room.disconnect(), clearInterval(snapshot).  No timeout is cleared, and
\* the room still lists its publications when disconnect() returns.
cleanup ==
    /\ wired' = (IF variant = "app2" THEN {} ELSE wired)
    /\ conn' = Disconnected(conn)
    /\ snapshotOn' = FALSE
    /\ torn' = TRUE

lifeFrame == <<variant, tiles, heap, held, nextEl, live, page, joined, stray, subs,
               startTimer, startedRef, startCount, pollerVars>>

\* app2: the beforeunload listener of every run of the effect logs
\* END_RECORDING and calls the cleanup of its own room
BeforeUnload ==
    /\ variant = "app2"
    /\ unloadListeners > 0
    /\ endCount < MaxEnd
    /\ endCount' = endCount + unloadListeners
    /\ cleanup
    /\ lastOp' = Op("beforeunload", LocalId, "", FALSE)
    /\ UNCHANGED <<lifeFrame, mounted, unloadListeners>>

\* the function the effect returned: removeEventListener with a new function
\* (removes nothing), then cleanup()
EffectCleanup ==
    /\ mounted
    /\ mounted' = FALSE
    /\ cleanup
    /\ lastOp' = Op("effectCleanup", LocalId, "", FALSE)
    /\ UNCHANGED <<lifeFrame, unloadListeners, endCount>>

\* app2: the effect runs again after its cleanup (the refs and the tiles state
\* stay): a new Room, doConnect(), one more beforeunload listener
EffectRerun ==
    /\ variant = "app2"
    /\ conn # "noRoom"
    /\ ~mounted
    /\ unloadListeners < MaxMounts
    /\ mounted' = TRUE
    /\ torn' = FALSE
    /\ conn' = "connecting"
    /\ wired' = {}
    /\ unloadListeners' = unloadListeners + 1
    /\ lastOp' = Op("effect", LocalId, "", FALSE)
    /\ UNCHANGED <<lifeFrame, snapshotOn, endCount>>

\* the effect has run: with url and token it made the Room, called
\* doConnect()/startLogic() (suspended at its await), and in app2 added the
\* beforeunload listener and returned its cleanup; without them it returned
\* before any of that.  The speaking effect of part_000 runs and returns its
\* cleanup in both cases.
Init ==
    /\ variant \in Variants
    /\ conn \in {"connecting", "noRoom"}
    /\ wired = {}
    /\ tiles = EmptyMap
    /\ heap = EmptyMap
    /\ held = EmptyMap
    /\ page = NoPage
    /\ nextEl = 0
    /\ live = {}
    /\ joined = {}
    /\ stray = {}
    /\ subs = SubsOf({})
    /\ startedRef = FALSE
    /\ startTimer = FALSE
    /\ startCount = 0
    /\ lastOp = Op("init", LocalId, "", FALSE)
    /\ now = 0
    /\ tickDue = NoTimer
    /\ pubs = [p \in PubIds |-> NoPub]
    /\ hasDecoded = FALSE
    /\ statsPending = {}
    /\ mounted = (conn = "connecting" \/ variant = "part000")
    /\ torn = FALSE
    /\ snapshotOn = FALSE
    /\ unloadListeners = (IF variant = "app2" /\ conn = "connecting" THEN 1 ELSE 0)
    /\ endCount = 0

\* React commits the render of the current Map
Render ==
    /\ page # Rendered(tiles, heap, page)
    /\ page' = Rendered(tiles, heap, page)
    /\ lastOp' = Op("render", LocalId, "", FALSE)
    /\ UNCHANGED <<variant, conn, wired, tiles, heap, held, nextEl, live, joined,
                   stray, subs, startTimer, startedRef, startCount, pollerVars,
                   lifeVars, snapshotOn>>

\* R: the remote participants whose session events are delivered after the
\* handlers are wired, E: the remotes that may be in the room at connect,
\* M: their metadata values, A: what the audio analysis setup may meet.  A
\* remote of E outside R is a bystander: no metadata, at most a camera.
TrackerEvents(R, E, M, A) ==
    \/ /\ conn = "connecting"
       /\ \E existing \in SUBSET E :
          \E metaOf \in [{LocalId} \cup existing -> M],
             presubs \in SUBSET (existing \X Kinds), env \in A :
             /\ metaOf[LocalId] \in LocalMetadata
             /\ \A id \in existing \ R :
                   metaOf[id] = "" /\ <<id, "audio">> \notin presubs
             /\ ConnectResolve(existing, metaOf, presubs, env)
    \/ ConnectReject
    \/ \E id \in R, metadata \in M, name \in Names :
          /\ (variant # "app2" \/ metadata # "") => name = ""
          /\ ParticipantConnected(id, metadata, name)
    \/ \E id \in R : ParticipantDisconnected(id)
    \/ \E id \in R, kind \in Kinds, env \in A :
          /\ kind = "video" => env = "ok"
          /\ TrackSubscribed(id, kind, env)
    \/ \E id \in R, kind \in Kinds : TrackUnsubscribed(id, kind)
    \/ StartTimerFire
    \/ Render

\* every remote may already be in the room at connect
TrackerNext(R) ==
    \/ TrackerEvents(R, Remotes, Metadata, AudioEnvs)
    \/ /\ variant # "app2"
       /\ \E bufOf \in [Identities -> Bufs] : SpeakingTick(bufOf)

Next == TrackerNext({"alice"})

Spec == Init /\ [][Next]_vars

\* a consumer (the render, a reader between two events) takes the Map that is
\* in React state now and keeps it; what only the Map it held before refers
\* to is garbage
Hold ==
    /\ held # tiles
    /\ held' = tiles
    /\ heap' = Restrict(heap, Range(tiles))
    /\ lastOp' = Op("hold", LocalId, "", FALSE)
    /\ UNCHANGED <<variant, conn, wired, tiles, nextEl, live, page, joined, stray,
                   subs, startTimer, startedRef, startCount, pollerVars,
                   lifeVars, snapshotOn>>

\* the tracker with a consumer holding snapshots: one remote, the analysis
\* available
NextSnapshot ==
    \/ TrackerEvents({"alice"}, {"alice"}, {""}, {"ok"})
    \/ /\ variant # "app2"
       /\ \E bufOf \in [Identities -> Bufs] : SpeakingTick(bufOf)
    \/ Hold

SpecSnapshot == Init /\ [][NextSnapshot]_vars

\* the second App with its teardown: one remote, the analysis not involved
InitSession == Init /\ variant = "app2"

NextSession ==
    \/ TrackerEvents({"alice"}, {"alice"}, {""}, {"ok"})
    \/ BeforeUnload
    \/ EffectCleanup
    \/ EffectRerun

SpecSession == InitSession /\ [][NextSession]_vars

----------------------------------------------------------------------------
(* Poller actions.  The tracker handlers and tick share no state: tick     *)
(* reads the room and the clock and writes startedRef, its timer and the   *)
(* console, so the poller is checked against every course of the room's    *)
(* publications, the events of which are the tracker's actions above.      *)

pollerFrame == <<variant, conn, wired, tiles, heap, held, nextEl, live, page, joined,
                 stray, subs, startTimer, lifeVars, snapshotOn>>

\* a run of tick by its timeout
Tick ==
    /\ tickDue # NoTimer
    /\ now >= Min(tickDue, MaxTime)
    /\ tick(pubs, now)
    /\ lastOp' = Op("tick", LocalId, "", FALSE)
    /\ UNCHANGED <<pollerFrame, now, pubs>>

\* a stats promise of the latest tick resolves: its callback assigns the
\* `hasDecoded` of an invocation that has already taken its decision
StatsThen(p) ==
    /\ p \in statsPending
    /\ statsPending' = statsPending \ {p}
    /\ hasDecoded' = (hasDecoded \/ pubs[p].decoded)
    /\ lastOp' = Op("statsThen", LocalId, "", FALSE)
    /\ UNCHANGED <<pollerFrame, now, tickDue, pubs, startedRef, startCount>>

\* the room changes a publication (published, subscribed, decoding, gone)
RoomChange(p, s) ==
    /\ conn = "connected"
    /\ s # pubs[p]
    /\ pubs' = [pubs EXCEPT ![p] = s]
    /\ lastOp' = Op("roomChange", LocalId, "", FALSE)
    /\ UNCHANGED <<pollerFrame, now, tickDue, hasDecoded, statsPending,
                   startedRef, startCount>>

\* time passes; a due timeout runs before more than one step of time passes
Advance(d) ==
    /\ conn \in {"connected", "disconnected"}
    /\ now < MaxTime
    /\ tickDue = NoTimer \/ now < tickDue
    /\ now' = Min(now + d, MaxTime)
    /\ lastOp' = Op("advance", LocalId, "", FALSE)
    /\ UNCHANGED <<pollerFrame, tickDue, pubs, hasDecoded, statsPending,
                   startedRef, startCount>>

\* room.disconnect() has finished: the room lists no remote participant
RoomEmptied ==
    /\ conn = "disconnected"
    /\ pubs # [p \in PubIds |-> NoPub]
    /\ pubs' = [p \in PubIds |-> NoPub]
    /\ lastOp' = Op("roomEmptied", LocalId, "", FALSE)
    /\ UNCHANGED <<pollerFrame, tickVars, startedRef, startCount>>

\* the first App from its mount
InitPoller == Init /\ variant = "app1"

\* startLogic resumes on a room that is empty or holds alice, then the poller
\* runs against the room and the clock
NextPoller ==
    \/ /\ conn = "connecting"
       /\ \E existing \in SUBSET {"alice"} :
          \E presubs \in SUBSET (existing \X Kinds) :
             ConnectResolve(existing, [id \in {LocalId} \cup existing |-> ""],
                            presubs, "ok")
    \/ ConnectReject
    \/ Render
    \/ Tick
    \/ \E p \in PubIds : StatsThen(p)
    \/ \E p \in PubIds : \E s \in PubStates(p) : RoomChange(p, s)
    \/ \E d \in Deltas : Advance(d)

SpecPoller == InitPoller /\ [][NextPoller]_vars

\* the first App's poller with the unmount of the component
NextPollerUnmount ==
    \/ NextPoller
    \/ EffectCleanup
    \/ RoomEmptied

SpecPollerUnmount == InitPoller /\ [][NextPollerUnmount]_vars

\* the browser runs a due timeout and time does not stop
SpecPollerFair ==
    /\ SpecPoller
    /\ WF_vars(Tick)
    /\ WF_vars(\E d \in Deltas : Advance(d))

----------------------------------------------------------------------------
(* Properties of the tile tracker (checked under Spec)                     *)

Tile(id) == heap[tiles[id]]
TickStep == lastOp'.op = "tick"

\* C1 as stated: under any order of events, an identity has a tile if and
\* only if it has joined and not left.
C1_TileIffJoined ==
    \A id \in Identities : (id \in DOMAIN tiles) <=> (id \in joined)

\* C1 amended: every participant that has joined and not left has a tile, and
\* an identity without one of the two has no tile unless a trackSubscribed
\* reached it while it was not joined (the handlers then synthesise a tile,
\* which stays until that identity's next participantDisconnected).
C1_TileIffJoinedInOrder ==
    \A id \in Identities :
        /\ id \in joined => id \in DOMAIN tiles
        /\ id \notin stray => (id \in DOMAIN tiles => id \in joined)

C1_Witness ==
    /\ lastOp = Op("participantDisconnected", "alice", "", FALSE)
    /\ "alice" \notin DOMAIN tiles
    /\ "alice" \notin joined
    /\ \E r \in live : r.owner = "alice" /\ r.res = "videoEl"
    /\ nextEl > 0
    /\ "bob" \in joined /\ "bob" \in DOMAIN tiles

\* C8: in every reachable state each tile has hasVideo true if and only if
\* its videoEl is an element (neither null nor undefined).
C8_VideoFlagIffSurface ==
    \A id \in DOMAIN tiles : IsTrue(Tile(id), "hasVideo") <=> IsObj(Tile(id), "videoEl")

C8_Witness ==
    /\ lastOp = Op("trackUnsubscribed", "alice", "video", FALSE)
    /\ variant # "app1"
    /\ "alice" \in DOMAIN tiles
    /\ ~IsTrue(Tile("alice"), "hasVideo")
    /\ "videoEl" \in DOMAIN Tile("alice")
    /\ nextEl = MaxEls

\* C9: a participantConnected for an identity that already has a tile leaves
\* the Map and every tile object as they were.
C9_JoinIdempotent ==
    [][(lastOp'.op = "participantConnected" /\ lastOp'.id \in DOMAIN tiles)
        => (tiles' = tiles /\ heap' = heap)]_vars

C9_Witness ==
    /\ lastOp = Op("participantConnected", "alice", "", FALSE)
    /\ "alice" \in DOMAIN tiles
    /\ IsTrue(Tile("alice"), "hasVideo")
    /\ IsTrue(Tile("alice"), "hasAudio")
    /\ Tile("alice").displayName = "Meta"

\* C10: a participantDisconnected removes the tile of its identity and nothing
\* else: the other keys stay and their tiles keep every value; when the
\* identity has no tile the Map keeps its contents.
C10_LeaveRemovesOnlyThatTile ==
    [][lastOp'.op = "participantDisconnected"
        => /\ tiles' = MapDelete(tiles, lastOp'.id)
           /\ \A o \in DOMAIN tiles \ {lastOp'.id} : heap'[tiles'[o]] = heap[tiles[o]]]_vars

C10_Witness ==
    /\ lastOp = Op("participantDisconnected", "alice", "", FALSE)
    /\ DOMAIN tiles = {LocalId, "bob"}
    /\ IsTrue(Tile("bob"), "hasVideo")
    /\ \E r \in live : r.owner = "alice" /\ r.res = "audioEl"

\* C7: in part_000 and app2 a START_RECORDING marker is written only while
\* at least one track subscription exists.
C7_StartOnlyWithSubscription ==
    [][(startCount' > startCount /\ variant # "app1")
        => \E pr \in Remotes \X Kinds : subs[pr] > 0]_vars

FlagOf(kind) == IF kind = "video" THEN "hasVideo" ELSE "hasAudio"

\* C11: a trackSubscribed (video or audio) for an identity without a tile
\* leaves one tile for that identity whose flag of the track's kind is true,
\* and a later participantConnected for that identity keeps the Map and the
\* tile object as they are.
C11_TileFromTrackEvent ==
    /\ [][(lastOp'.op = "trackSubscribed" /\ lastOp'.id \notin DOMAIN tiles)
           => /\ lastOp'.id \in DOMAIN tiles'
              /\ IsTrue(heap'[tiles'[lastOp'.id]], FlagOf(lastOp'.kind))]_vars
    /\ [][(lastOp'.op = "participantConnected" /\ lastOp'.id \in stray
            /\ lastOp'.id \in DOMAIN tiles)
           => (tiles' = tiles /\ heap' = heap)]_vars

\* C12: after a participantDisconnected for an identity whose tile had video
\* and audio attached, the tile is gone and no element or audio context made
\* for that identity is still held.
C12_LeaveReleasesResources ==
    [][(/\ lastOp'.op = "participantDisconnected"
        /\ lastOp'.id \in DOMAIN tiles
        /\ IsTrue(Tile(lastOp'.id), "hasVideo")
        /\ IsTrue(Tile(lastOp'.id), "hasAudio"))
        => /\ lastOp'.id \notin DOMAIN tiles'
           /\ \A r \in live' : r.owner # lastOp'.id]_vars

\* C13: in every reachable state a tile whose hasAudio is not true has a
\* speaking flag that is not true (so it is false after the audio track is
\* unsubscribed and under every later run of the speaking interval).
C13_SilentWithoutAudio ==
    \A id \in DOMAIN tiles :
        ~IsTrue(Tile(id), "hasAudio") => ~IsTrue(Tile(id), "speaking")

\* C14: in the second App END_RECORDING is written exactly once per
\* session: never more than once, and once a teardown trigger (beforeunload
\* or the effect's cleanup) has run it has been written.
C14_StopMarkerExactlyOnce ==
    variant = "app2" => (endCount <= 1 /\ (torn => endCount = 1))

\* C15: in the second App, in every state after cleanup has run, no session
\* event handler is registered on the room, no snapshot interval is active and
\* no tile holds a video element.
C15_ShutdownReleasesEverything ==
    (variant = "app2" /\ torn)
        => /\ wired = {}
           /\ ~snapshotOn
           /\ \A id \in DOMAIN tiles : ~IsObj(Tile(id), "videoEl")

\* C16: in the first App, once the effect cleanup has run, no tick runs or
\* reschedules itself and no START_RECORDING is written.
C16_PollerCanceledAtTeardown ==
    [][(variant = "app1" /\ torn)
        => (~TickStep /\ startCount' = startCount)]_vars

\* C17: a tracker update leaves the tile values reachable from the Map a
\* consumer took before the update as they were: through that Map the
\* consumer still reads the old hasVideo, hasAudio, videoEl and speaking.
C17_SnapshotsAreImmutable ==
    [][held' = held
        => \A id \in DOMAIN held : heap'[held[id]] = heap[held[id]]]_vars

\* C18: after every trackSubscribed or trackUnsubscribed event for a
\* participant with a tile (the audio analysis being available), the flag of
\* the event's kind is true if and only if at least one track of that kind is
\* subscribed and not yet unsubscribed.
C18_FlagsTrackLiveTracks ==
    [][(lastOp'.op \in {"trackSubscribed", "trackUnsubscribed"}
        /\ lastOp'.env = "ok"
        /\ lastOp'.id \in DOMAIN tiles')
        => (IsTrue(heap'[tiles'[lastOp'.id]], FlagOf(lastOp'.kind))
            <=> subs'[<<lastOp'.id, lastOp'.kind>>] > 0)]_vars

\* C19: in the first App, after an audio trackSubscribed whose analysis setup
\* is unavailable or fails, the participant has a tile with hasAudio true, no
\* analyser and speaking not true, and the video state of the tile is as
\* before.
C19_AudioWithoutAnalysis ==
    [][(variant = "app1" /\ lastOp'.op = "trackSubscribed"
        /\ lastOp'.kind = "audio" /\ lastOp'.env # "ok")
        => /\ lastOp'.id \in DOMAIN tiles'
           /\ LET p == heap'[tiles'[lastOp'.id]]
              IN /\ IsTrue(p, "hasAudio")
                 /\ ~IsObj(p, "analyser")
                 /\ ~IsTrue(p, "speaking")
                 /\ lastOp'.id \in DOMAIN tiles
                      => /\ IsTrue(p, "hasVideo") = IsTrue(Tile(lastOp'.id), "hasVideo")
                         /\ IsObj(p, "videoEl") = IsObj(Tile(lastOp'.id), "videoEl")]_vars

\* C20: in part_000 no tracker event handler raises an error to its caller.
C20_HandlersNeverThrow ==
    variant = "part000" => ~lastOp.threw

\* C21: in part_000, when doConnect has wired the handlers, every participant
\* that was in the room at connect has a tile, and every track that was
\* subscribed at connect shows in its owner's tile: hasVideo with a videoEl
\* for video, hasAudio for audio.
C21_EnumerationCoversExisting ==
    (variant = "part000" /\ lastOp.op = "doConnect")
        => \A id \in joined :
              /\ id \in DOMAIN tiles
              /\ \A k \in Kinds :
                    (id \in Remotes /\ subs[<<id, k>>] > 0)
                        => /\ IsTrue(Tile(id), FlagOf(k))
                           /\ k = "video" => IsObj(Tile(id), "videoEl")

\* C22: once room.connect has rejected, the session has no event handler
\* wired, no tile, no start timer armed and no START_RECORDING emitted, and it
\* stays failed: connect is not tried again.
C22_FailedConnectIsInert ==
    /\ [](conn = "failed"
            => /\ wired = {}
               /\ DOMAIN tiles = {}
               /\ ~startTimer
               /\ startCount = 0
               /\ tickDue = NoTimer)
    /\ [][conn = "failed" => conn' = "failed"]_vars

\* a failed session in which the speaking interval has run afterwards
C22_Witness == conn = "failed" /\ lastOp.op = "speakingInterval"

\* C23: a run of the speaking interval keeps the set of tile identities,
\* changes no field of any tile other than speaking, leaves tiles without an
\* analyser entirely alone, and sets speaking of a tile with an analyser to
\* true exactly when the average of its frequency sample is above 20.
C23_SpeakingIntervalFrame ==
    [][lastOp'.op = "speakingInterval"
        => /\ DOMAIN tiles' = DOMAIN tiles
           /\ \A id \in DOMAIN tiles :
                 LET p == heap[tiles[id]]
                     q == heap'[tiles'[id]]
                     buf == lastOp'.sample[id]
                 IN /\ DOMAIN q \ {"speaking"} = DOMAIN p \ {"speaking"}
                    /\ \A f \in DOMAIN p \ {"speaking"} : q[f] = p[f]
                    /\ ~IsObj(p, "analyser") => q = p
                    /\ IsObj(p, "analyser")
                          => q["speaking"] = (Len(buf) > 0 /\ Sum(buf) > 20 * Len(buf))]_vars

\* the interval has just read an average of exactly 20 for a tile with an
\* analyser, next to another tile that has none
C23_Witness ==
    /\ lastOp.op = "speakingInterval"
    /\ \E id \in DOMAIN tiles :
          /\ IsObj(Tile(id), "analyser")
          /\ lastOp.sample[id] = <<20, 20>>
          /\ ~IsTrue(Tile(id), "speaking")
    /\ \E id \in DOMAIN tiles : ~IsObj(Tile(id), "analyser")

\* C24: when a video track is subscribed for an identity whose tile already
\* has a video surface, the tile's videoEl becomes the new surface and the
\* previous surface is released (detached from its track or removed); and in
\* every state no surface is the videoEl of two different tiles.
C24_SurfaceReplacedAndExclusive ==
    /\ [][(/\ lastOp'.op = "trackSubscribed"
           /\ lastOp'.kind = "video"
           /\ lastOp'.id \in DOMAIN tiles
           /\ IsObj(Tile(lastOp'.id), "videoEl"))
          => /\ lastOp'.id \in DOMAIN tiles'
             /\ heap'[tiles'[lastOp'.id]]["videoEl"] = nextEl'
             /\ nextEl' # Tile(lastOp'.id)["videoEl"]
             /\ \A r \in live' :
                   ~(r.res = "videoEl" /\ r.n = Tile(lastOp'.id)["videoEl"])]_vars
    /\ [](\A a, b \in DOMAIN tiles :
            (a # b /\ IsObj(Tile(a), "videoEl") /\ IsObj(Tile(b), "videoEl"))
                => Tile(a)["videoEl"] # Tile(b)["videoEl"])

\* C25: in the second App, however the delayed start timer interleaves with
\* the beforeunload teardown, START_RECORDING is never written once
\* END_RECORDING has been written.
C25_NoStartAfterEnd ==
    [][(variant = "app2" /\ endCount > 0) => startCount' = startCount]_vars

----------------------------------------------------------------------------
(* Properties of the readiness poller (checked under SpecPoller)           *)

AnyDecoded(ps) == \E p \in PubIds : ps[p].present /\ ps[p].decoded
DecodedSubscribedVideo(ps) ==
    \E p \in PubIds : /\ ps[p].present /\ KindOf(p) = "video"
                      /\ ps[p].isSubscribed /\ ps[p].track /\ ps[p].decoded
NoVideoPub(ps) == \A p \in PubIds : ps[p].present => KindOf(p) # "video"

\* C2: START_RECORDING is written at most once, and once startedRef is set
\* nothing is written and no tick is pending or scheduled any more.
C2_FiresAtMostOnce ==
    /\ [](startCount <= 1)
    /\ [][startedRef => (startedRef' /\ startCount' = startCount
                         /\ tickDue = NoTimer /\ tickDue' = NoTimer)]_vars

C2_Witness ==
    /\ startedRef /\ startCount = 1
    /\ lastOp.op = "roomChange"
    /\ HasSubscribed(pubs)
    /\ now = MaxTime

\* C3: a tick that runs while a subscribed video track has decoded a frame,
\* the signal not yet given, writes START_RECORDING at once.
C3_DecodedFrameFires ==
    [][(TickStep /\ DecodedSubscribedVideo(pubs) /\ ~startedRef)
        => startCount' = startCount + 1]_vars

\* C4: with a subscribed publication and no video publication, a tick writes
\* START_RECORDING when more than 500 ms have elapsed (and it was not written
\* before), and writes nothing at 500 ms or less.
C4_AudioOnlyGrace ==
    [][(TickStep /\ HasSubscribed(pubs) /\ NoVideoPub(pubs))
        => IF now > GracePeriod /\ ~startedRef
           THEN startCount' = startCount + 1
           ELSE startCount' = startCount]_vars

C4_Witness ==
    /\ lastOp.op = "tick"
    /\ startCount = 1
    /\ now = GracePeriod + 50
    /\ HasSubscribed(pubs) /\ NoVideoPub(pubs)

\* C5: once a publication stays subscribed START_RECORDING is eventually
\* written; a tick later than 5000 ms with a subscription writes it, and with
\* a video track that has decoded nothing no tick writes it before.
C5_TimeoutProgress ==
    /\ (<>[]HasSubscribed(pubs)) => <>(startCount >= 1)
    /\ [][(TickStep /\ HasSubscribed(pubs) /\ now > FRAME_DECODE_TIMEOUT /\ ~startedRef)
           => startCount' = startCount + 1]_vars
    /\ [][(TickStep /\ HasVideo(pubs) /\ ~AnyDecoded(pubs) /\ now <= FRAME_DECODE_TIMEOUT)
           => startCount' = startCount]_vars

C5_Witness ==
    /\ lastOp.op = "tick"
    /\ startCount = 1
    /\ now = FRAME_DECODE_TIMEOUT + 50
    /\ pubs["cam"].present /\ pubs["cam"].isSubscribed /\ ~pubs["cam"].decoded

\* C6: a tick that finds nothing subscribed and nothing decoded writes no
\* START_RECORDING, whatever the elapsed time, and schedules the next tick.
C6_NoPrematureSignal ==
    [][(TickStep /\ ~HasSubscribed(pubs) /\ ~AnyDecoded(pubs))
        => (startCount' = startCount /\ (~startedRef => tickDue' = now + TickDelay))]_vars

C6_Witness ==
    /\ lastOp.op = "tick"
    /\ startCount = 0
    /\ now > FRAME_DECODE_TIMEOUT
    /\ ~HasSubscribed(pubs) /\ ~AnyDecoded(pubs)
    /\ tickDue = now + TickDelay

====
